---- MODULE Spec2Model ----
(***************************************************************************)
(* Model of immich_face_to_album/__main__.py: the face_to_album command,   *)
(* its run_once / process_mapping closures, the three remote calls         *)
(* (get_time_buckets, get_assets_for_time_bucket, add_assets_to_album),    *)
(* chunker, and the three scheduling modes (run once, fixed interval,      *)
(* cron).                                                                  *)
(***************************************************************************)
EXTENDS Integers, Sequences, FiniteSets, TLC

\* ---------------------------------------------------------------- bounds
\* most --face options on the command line
MaxFaceIds == 2
\* most --skip-face options on the command line
MaxSkipFaceIds == 1
\* longest faceIds list of a mapping of the config file
MaxConfigFaceIds == 1
\* longest skipFaceIds list of a mapping of the config file
MaxConfigSkipFaceIds == 1
\* most mappings in the config file
MaxMappings == 2

\* ------------------------------------------------------ program constants
\* chunk size passed to chunker (line 161)
ChunkSize == 500
\* HTTP status that counts as success (lines 20, 53, 81)
StatusOk == 200
\* the statuses the server answers with
Statuses == {StatusOk, 500}
\* highest asset id the modelled server holds
MaxAssetId == 1001

\* ------------------------------------------------------------ the server
\* The photo server is a black box behind requests.get / requests.put.  The
\* model fixes its content: three persons, their bucket tokens and the "id"
\* array of every bucket page.  Ids are numbers; a page is a sequence because
\* the JSON "id" field is an array (it may repeat an id).
Faces == {"p0", "p1", "p2"}

Range(s) == {s[i] : i \in DOMAIN s}

Ids(lo, hi) == [i \in 1..(hi - lo + 1) |-> lo + i - 1]

\* GET /api/timeline/buckets?personId=face : the timeBucket tokens
ServerBuckets(face) ==
    CASE face = "p0" -> <<>>
      [] face = "p1" -> <<"b1", "b2">>
      [] face = "p2" -> <<"b1", "b2">>

\* GET /api/timeline/bucket?personId=face&timeBucket=token : the "id" array
ServerPage(face, token) ==
    CASE face = "p1" /\ token = "b1" -> Ids(1, 500)
      [] face = "p1" /\ token = "b2" -> Ids(500, MaxAssetId)
      [] face = "p2" /\ token = "b1" -> <<>>
      [] face = "p2" /\ token = "b2" -> Ids(2, 501) \o <<501>>
      [] OTHER -> <<>>

\* ------------------------------------------------------------- mappings
Keys == {"faceIds", "albumId", "skipFaceIds"}

SeqsUpTo(S, n) == UNION {[1..k -> S] : k \in 0..n}

\* A mapping is a JSON object: keys says which fields it has.
Mapping(keys, faceIds, albumId, skipFaceIds) ==
    [keys |-> keys, faceIds |-> faceIds, albumId |-> albumId,
     skipFaceIds |-> skipFaceIds]

NoMapping == Mapping({}, <<>>, 0, <<>>)

\* Album ids are numbers; the mappings of a config file name distinct albums,
\* the k-th one album k.  NoAlbum stands for an absent album id (no albumId
\* key, or --album not given, which leaves album = None).
NoAlbum == 0

\* the faces the mappings of a config file name; the face without buckets is
\* named by the command-line mappings
ConfigFaces == {"p1", "p2"}

\* the mappings the k-th entry of a config file can be: complete ones, ones
\* without skipFaceIds, and ones missing a required field
ConfigMappings(album) ==
    {Mapping(Keys, f, album, s) :
        f \in SeqsUpTo(ConfigFaces, MaxConfigFaceIds),
        s \in SeqsUpTo(ConfigFaces, MaxConfigSkipFaceIds)}
    \cup {Mapping({"faceIds", "albumId"}, f, album, <<>>) :
            f \in SeqsUpTo(ConfigFaces, MaxConfigFaceIds)}
    \cup {Mapping({"faceIds", "skipFaceIds"}, <<"p1">>, NoAlbum, <<>>),
          Mapping({"albumId", "skipFaceIds"}, <<>>, album, <<>>)}

\* the mapping run_once builds from --face, --skip-face and --album
\* (lines 177-181): every key is present, album is None when not given
CliMappings ==
    {Mapping(Keys, f, 1, s) :
        f \in SeqsUpTo(Faces, MaxFaceIds), s \in SeqsUpTo(Faces, MaxSkipFaceIds)}
    \cup {Mapping(Keys, <<"p2">>, NoAlbum, <<>>)}

\* mapping.get(key, default) (line 135)
Get(m, key, default) == IF key \in m.keys THEN m[key] ELSE default

\* ------------------------------------------------------- pure functions
\* list(unique_asset_ids) (line 160): a set has no defined iteration order;
\* the model takes the ascending or the descending one
ListOrders == {"asc", "desc"}

list(s, order) ==
    IF order = "asc"
    THEN SelectSeq([i \in 1..MaxAssetId |-> i], LAMBDA x : x \in s)
    ELSE SelectSeq([i \in 1..MaxAssetId |-> MaxAssetId + 1 - i], LAMBDA x : x \in s)

\* range(0, n, size) (line 111): 0, size, 2*size, ... below n
range_mut_one(n, size) == [k \in 1..((n + size) \div size) |-> (k - 1) * size]

range(n, size) == [k \in 1..((n + size - 1) \div size) |-> (k - 1) * size]

Min(a, b) == IF a < b THEN a ELSE b

\* seq[pos : pos + size] (line 111), pos counted from 0
slice_mut_short(seq, pos, size) == SubSeq(seq, pos + 1, Min(pos + size - 1, Len(seq)))

slice(seq, pos, size) == SubSeq(seq, pos + 1, Min(pos + size, Len(seq)))

\* chunker(seq, size) (lines 110-111), the generator's items in order
chunker(seq, size) ==
    LET starts == range(Len(seq), size)
    IN  [k \in DOMAIN starts |-> slice(seq, starts[k], size)]

\* set.update(iterable) (lines 143, 154)
update_mut_replace(s, array) == Range(array)

update(s, array) == s \cup Range(array)

\* set.difference_update(other) (line 156)
difference_update_mut_keep(s, other) == s

difference_update(s, other) == s \ other

\* add_assets_to_album's result (lines 81-107): True on 200; on any other
\* status the error body is reported (a JSON object, or text that is not JSON
\* and raises JSONDecodeError, which is caught) and the result is False
ErrorBodies == {"json_object", "not_json"}

add_assets_to_album(status, body) == status = StatusOk

\* ----------------------------------------------------------------- state
VARIABLES
    mode,             \* "once", "interval" (--run-every-seconds > 0) or "cron" (CRON_EXPRESSION set)
    useConfig,        \* TRUE when --config is given
    pc,               \* where the program is
    exitStatus,       \* -1 while the process runs, else its exit status
    sched,            \* the BlockingScheduler: "off", "on" or "stopped"
    run,              \* the execution of run_once: "none" yet, the "first", or a "later" one
    active,           \* executions of run_once in progress
    error,            \* the exception that ended the last run_once, or "none"
    mi,               \* mappings run_once has handed to process_mapping
    mapping,          \* process_mapping's argument
    phase,            \* "include" (lines 136-143) or "skip" (lines 147-154)
    fi,               \* position in face_ids / skip_face_ids
    time_buckets,     \* bucket tokens returned for the current face
    bi,               \* position in time_buckets
    unique_asset_ids,
    skip_asset_ids,
    asset_ids_list,
    ci,               \* position in the chunks
    \* history, kept for the properties only
    log,              \* <<mapping number, "fetch" | "put">> of the run's calls, repeats collapsed
    mcalls,           \* remote calls made for the current mapping
    sent,             \* the payloads PUT for the current mapping, in call order
    results,          \* add_assets_to_album's result for each of them
    fetchFailed,      \* TRUE once a fetch of this run returned a non-success status
    listReqs,         \* bucket-list requests made for the current face
    pageReqs,         \* bucket tokens requested for the current face, in call order
    face_assets       \* ids received for the current face

config == <<mode, useConfig>>
process == <<pc, exitStatus, sched, run, active, error>>
frame == <<mi, mapping, phase, fi, time_buckets, bi, unique_asset_ids,
           skip_asset_ids, asset_ids_list, ci>>
history == <<log, mcalls, sent, results, fetchFailed, listReqs, pageReqs, face_assets>>
vars == <<config, process, frame, history>>

Modes == {"once", "interval", "cron"}

\* process_mapping is entered with mapping m, the k-th of the run: its locals
\* as lines 132-135 leave them
EnterFrame(k, m) ==
    /\ mi' = k
    /\ mapping' = m
    /\ phase' = "include"
    /\ fi' = 1
    /\ time_buckets' = <<>>
    /\ bi' = 1
    /\ unique_asset_ids' = {}
    /\ skip_asset_ids' = {}
    /\ asset_ids_list' = <<>>
    /\ ci' = 1

\* the frames of run_once and process_mapping are gone
NoFrame == EnterFrame(0, NoMapping)

\* nothing is recorded of the execution
NoHistory ==
    /\ log' = <<>>
    /\ mcalls' = 0
    /\ sent' = <<>>
    /\ results' = <<>>
    /\ fetchFailed' = FALSE
    /\ listReqs' = 0
    /\ pageReqs' = <<>>
    /\ face_assets' = {}

\* face_to_album is entered with its options parsed
Init ==
    /\ mode \in Modes
    /\ useConfig \in BOOLEAN
    /\ pc = "start"
    /\ exitStatus = -1
    /\ sched = "off"
    /\ run = "none"
    /\ active = 0
    /\ error = "none"
    /\ mi = 0
    /\ mapping = NoMapping
    /\ phase = "include"
    /\ fi = 1
    /\ time_buckets = <<>>
    /\ bi = 1
    /\ unique_asset_ids = {}
    /\ skip_asset_ids = {}
    /\ asset_ids_list = <<>>
    /\ ci = 1
    /\ log = <<>>
    /\ mcalls = 0
    /\ sent = <<>>
    /\ results = <<>>
    /\ fetchFailed = FALSE
    /\ listReqs = 0
    /\ pageReqs = <<>>
    /\ face_assets = {}

\* ------------------------------------------------------------- run_once
\* run_once is entered (lines 168-172, 177-181): the mappings list is the
\* config file's, or the single mapping of the CLI options.  The list is read
\* by the loop only: its elements, and where it ends, are drawn when the loop
\* gets there.  Nothing of an earlier execution survives.
RunOnceEntry ==
    /\ run' = IF run = "none" THEN "first" ELSE "later"
    /\ active' = active + 1
    /\ pc' = "loop"
    /\ error' = "none"
    /\ NoFrame
    /\ NoHistory

\* An exception leaves run_once.  exc is "SystemExit" (exit(1), lines 31 and
\* 64) or "KeyError" (lines 133-134).  In the run-once and interval modes
\* nothing catches it (line 199 catches KeyboardInterrupt only) and the process
\* ends with status 1.  In cron mode run_once is a job of the scheduler: the
\* exception either stays inside the job, and the scheduler goes on, or it
\* leaves scheduler.start(), where line 191 catches SystemExit (the command
\* then returns normally) and nothing catches KeyError.
Raise(exc) ==
    /\ error' = exc
    /\ active' = active - 1
    /\ NoFrame
    /\ \/ /\ mode \in {"once", "interval"}
          /\ pc' = "exited"
          /\ exitStatus' = 1
          /\ sched' = sched
       \/ /\ mode = "cron"
          /\ pc' = "idle"
          /\ UNCHANGED <<exitStatus, sched>>
       \/ /\ mode = "cron"
          /\ pc' = "exited"
          /\ sched' = "stopped"
          /\ exitStatus' = IF exc = "SystemExit" THEN 0 ELSE 1

\* the body of face_to_album (lines 184-202): cron when CRON_EXPRESSION is
\* set, else the interval loop, else a single run_once
Start ==
    /\ pc = "start"
    /\ IF mode = "cron"
       THEN /\ sched' = "on"
            /\ pc' = "idle"
            /\ UNCHANGED <<exitStatus, run, active, error, frame, history>>
       ELSE /\ RunOnceEntry
            /\ UNCHANGED <<exitStatus, sched>>
    /\ UNCHANGED config

\* the job added at line 188 keeps the scheduler's default of one running
\* instance: a firing while run_once is in progress is skipped
MaxInstances == 1

CronMayStart == active < MaxInstances

\* the cron trigger fires (lines 187-190)
CronFire ==
    /\ mode = "cron"
    /\ sched = "on"
    /\ IF CronMayStart
       THEN /\ RunOnceEntry
            /\ UNCHANGED <<exitStatus, sched>>
       ELSE UNCHANGED <<process, frame, history>>
    /\ UNCHANGED config

\* time.sleep returns only after run_once has returned (lines 195-198)
SleepReturns_mut == pc \in {"loop", "faces", "buckets", "put", "sleep"}

SleepReturns == pc = "sleep"

\* the next iteration of the while loop (lines 195-196)
IntervalNext ==
    /\ mode = "interval"
    /\ SleepReturns
    /\ RunOnceEntry
    /\ UNCHANGED <<exitStatus, sched, config>>

\* Ctrl+C: caught at line 199 anywhere in the interval loop (run_once is
\* abandoned, or the sleep is cut short), at line 191 while the scheduler
\* waits for the next firing; the command returns
KeyboardInterrupt ==
    /\ \/ mode = "interval" /\ pc \in {"loop", "faces", "buckets", "put", "sleep"}
       \/ mode = "cron" /\ sched = "on" /\ pc = "idle"
    /\ pc' = "exited"
    /\ exitStatus' = 0
    /\ sched' = IF mode = "cron" THEN "stopped" ELSE sched
    /\ active' = 0
    /\ NoFrame
    /\ NoHistory
    /\ UNCHANGED <<run, error, config>>

\* ------------------------------------------------------ process_mapping
\* the list the current loop iterates: face_ids (line 136) or skip_face_ids
\* (line 147)
CurFaces == IF phase = "include" THEN mapping.faceIds
            ELSE Get(mapping, "skipFaceIds", <<>>)

\* a remote call for album a is made; kind 1 is a fetch, 2 a write
Logged(l, a, kind) ==
    IF l # <<>> /\ l[Len(l)] = <<a, kind>> THEN l ELSE Append(l, <<a, kind>>)

\* the position in the list of the k-th item the for loop of line 173 yields
Item_mut_swapped(k) == IF k = 1 THEN 2 ELSE IF k = 2 THEN 1 ELSE k

Item(k) == k

\* for mapping in mappings: process_mapping(mapping) (lines 173-174, 182),
\* up to the subscripts of lines 133-134, which raise KeyError on a missing key
ProcessMapping ==
    /\ pc = "loop"
    /\ mi < (IF useConfig THEN MaxMappings ELSE 1)
    /\ \E m \in (IF useConfig THEN ConfigMappings(Item(mi + 1))
                 ELSE CliMappings) :
          IF {"albumId", "faceIds"} \subseteq m.keys
          THEN /\ EnterFrame(mi + 1, m)
               /\ pc' = "faces"
               /\ UNCHANGED <<exitStatus, sched, active, error>>
          ELSE Raise("KeyError")
    /\ mcalls' = 0
    /\ sent' = <<>>
    /\ results' = <<>>
    /\ listReqs' = 0
    /\ pageReqs' = <<>>
    /\ face_assets' = {}
    /\ UNCHANGED <<run, log, fetchFailed, config>>

\* the mappings list is exhausted and run_once returns, its frame gone: the
\* command ends (line 202), the loop sleeps (lines 197-198), or the job is over
RunOnceReturn ==
    /\ pc = "loop"
    /\ useConfig \/ mi = 1
    /\ active' = active - 1
    /\ pc' = CASE mode = "once" -> "exited"
               [] mode = "interval" -> "sleep"
               [] mode = "cron" -> "idle"
    /\ exitStatus' = IF mode = "once" THEN 0 ELSE exitStatus
    /\ NoFrame
    /\ NoHistory
    /\ UNCHANGED <<sched, run, error, config>>

\* get_time_buckets' else branch (lines 24-31): report and exit(1)
GetTimeBucketsFailed_mut_returns ==
    /\ fetchFailed' = TRUE
    /\ time_buckets' = <<>>
    /\ bi' = 1
    /\ pc' = "buckets"
    /\ UNCHANGED <<exitStatus, sched, active, error, mi, mapping, phase, fi,
                   unique_asset_ids, skip_asset_ids, asset_ids_list, ci>>

GetTimeBucketsFailed ==
    /\ fetchFailed' = TRUE
    /\ Raise("SystemExit")

\* time_buckets = get_time_buckets(...) for the next face (lines 139, 150)
GetTimeBuckets ==
    /\ pc = "faces"
    /\ fi <= Len(CurFaces)
    /\ mcalls' = mcalls + 1
    /\ log' = Logged(log, mapping.albumId, 1)
    /\ listReqs' = listReqs + 1
    /\ \E status \in Statuses :
          IF status = StatusOk
          THEN /\ time_buckets' = ServerBuckets(CurFaces[fi])
               /\ bi' = 1
               /\ pc' = "buckets"
               /\ UNCHANGED <<exitStatus, sched, active, error, fetchFailed,
                              mi, mapping, phase, fi, unique_asset_ids,
                              skip_asset_ids, asset_ids_list, ci>>
          ELSE GetTimeBucketsFailed
    /\ UNCHANGED <<run, sent, results, pageReqs, face_assets, config>>

\* get_assets_for_time_bucket's else branch (lines 57-64): report and exit(1)
GetAssetsFailed_mut_skips ==
    /\ fetchFailed' = TRUE
    /\ bi' = bi + 1
    /\ UNCHANGED <<pc, exitStatus, sched, active, error, mi, mapping, phase, fi,
                   time_buckets, unique_asset_ids, skip_asset_ids,
                   asset_ids_list, ci, face_assets>>

GetAssetsFailed ==
    /\ fetchFailed' = TRUE
    /\ Raise("SystemExit")
    /\ UNCHANGED face_assets

\* bucket_assets = get_assets_for_time_bucket(...) for the next bucket and
\* the update of the phase's set (lines 141-143, 152-154)
GetAssets ==
    /\ pc = "buckets"
    /\ bi <= Len(time_buckets)
    /\ mcalls' = mcalls + 1
    /\ log' = Logged(log, mapping.albumId, 1)
    /\ pageReqs' = Append(pageReqs, time_buckets[bi])
    /\ \E status \in Statuses :
          IF status = StatusOk
          THEN LET bucket_assets == ServerPage(CurFaces[fi], time_buckets[bi])
               IN  /\ IF phase = "include"
                      THEN /\ unique_asset_ids' = update(unique_asset_ids, bucket_assets)
                           /\ UNCHANGED skip_asset_ids
                      ELSE /\ skip_asset_ids' = update(skip_asset_ids, bucket_assets)
                           /\ UNCHANGED unique_asset_ids
                   /\ face_assets' = update(face_assets, bucket_assets)
                   /\ bi' = bi + 1
                   /\ UNCHANGED <<pc, exitStatus, sched, active, error, fetchFailed,
                                  mi, mapping, phase, fi, time_buckets,
                                  asset_ids_list, ci>>
          ELSE GetAssetsFailed
    /\ UNCHANGED <<run, sent, results, listReqs, config>>

\* the bucket loop of a face is exhausted: on to the next face (lines 136, 147)
BucketsDone ==
    /\ pc = "buckets"
    /\ bi > Len(time_buckets)
    /\ fi' = fi + 1
    /\ pc' = "faces"
    /\ listReqs' = 0
    /\ pageReqs' = <<>>
    /\ face_assets' = {}
    /\ UNCHANGED <<exitStatus, sched, run, active, error, mi,
                   mapping, phase, time_buckets, bi, unique_asset_ids,
                   skip_asset_ids, asset_ids_list, ci, log, mcalls, sent,
                   results, fetchFailed, config>>

\* the include loop is exhausted (line 145): the skip loop starts when
\* skip_face_ids is not empty, else the list is made (lines 159-160)
IncludeDone ==
    /\ pc = "faces"
    /\ phase = "include"
    /\ fi > Len(CurFaces)
    /\ IF Get(mapping, "skipFaceIds", <<>>) # <<>>
       THEN /\ phase' = "skip"
            /\ fi' = 1
            /\ skip_asset_ids' = {}
            /\ UNCHANGED <<pc, asset_ids_list, ci>>
       ELSE /\ \E order \in ListOrders :
                 asset_ids_list' = list(unique_asset_ids, order)
            /\ ci' = 1
            /\ pc' = "put"
            /\ UNCHANGED <<phase, fi, skip_asset_ids>>
    /\ UNCHANGED <<exitStatus, sched, run, active, error, mi,
                   mapping, time_buckets, bi, unique_asset_ids, history, config>>

\* the skip loop is exhausted: the skip set is removed and the list is made
\* (lines 155-160)
SkipDone ==
    /\ pc = "faces"
    /\ phase = "skip"
    /\ fi > Len(CurFaces)
    /\ unique_asset_ids' = difference_update(unique_asset_ids, skip_asset_ids)
    /\ \E order \in ListOrders :
          asset_ids_list' = list(unique_asset_ids', order)
    /\ ci' = 1
    /\ pc' = "put"
    /\ UNCHANGED <<exitStatus, sched, run, active, error, mi,
                   mapping, phase, fi, time_buckets, bi, skip_asset_ids,
                   history, config>>

\* the for loop of line 161 goes on to the next chunk whatever success is
NextChunk_mut_break(success, i, n) == IF success THEN i + 1 ELSE n + 1

NextChunk(success, i, n) == i + 1

\* one iteration of the chunk loop (lines 161-166): one PUT
PutChunk ==
    LET chunks == chunker(asset_ids_list, ChunkSize)
    IN  /\ pc = "put"
        /\ ci <= Len(chunks)
        /\ \E status \in Statuses, body \in ErrorBodies :
              LET success == add_assets_to_album(status, body)
              IN  /\ results' = Append(results, success)
                  /\ ci' = NextChunk(success, ci, Len(chunks))
        /\ sent' = Append(sent, chunks[ci])
        /\ mcalls' = mcalls + 1
        /\ log' = Logged(log, mapping.albumId, 2)
        /\ UNCHANGED <<process, mi, mapping, phase, fi, time_buckets,
                       bi, unique_asset_ids, skip_asset_ids, asset_ids_list,
                       fetchFailed, listReqs, pageReqs, face_assets, config>>

\* the chunks are exhausted and process_mapping returns (line 166)
ChunksDone ==
    /\ pc = "put"
    /\ ci > Len(chunker(asset_ids_list, ChunkSize))
    /\ pc' = "loop"
    /\ UNCHANGED <<exitStatus, sched, run, active, error, frame,
                   history, config>>

Next ==
    \/ Start
    \/ CronFire
    \/ IntervalNext
    \/ KeyboardInterrupt
    \/ ProcessMapping
    \/ RunOnceReturn
    \/ GetTimeBuckets
    \/ GetAssets
    \/ BucketsDone
    \/ IncludeDone
    \/ SkipDone
    \/ PutChunk
    \/ ChunksDone

Spec == Init /\ [][Next]_vars

\* ------------------------------------------------- what the properties use
\* the ids the server holds for a face, over all its buckets
AssetsOfFace(face) ==
    UNION {Range(ServerPage(face, ServerBuckets(face)[k])) :
             k \in DOMAIN ServerBuckets(face)}

\* union(I) - union(S) for every set I of include faces and S of skip faces
Targets ==
    {[include |-> I, skip |-> S,
      ids |-> UNION {AssetsOfFace(f) : f \in I} \ UNION {AssetsOfFace(f) : f \in S}] :
        I \in SUBSET Faces, S \in SUBSET Faces}

TargetOf(I, S) == CHOOSE r \in Targets : r.include = I /\ r.skip = S

FaceAssets(face) == TargetOf({face}, {}).ids

UnionOf(faces) == TargetOf(Range(faces), {}).ids

\* union(I) - union(S) of a mapping
FinalTarget(m) == TargetOf(Range(m.faceIds), Range(Get(m, "skipFaceIds", <<>>))).ids

\* the ids PUT for the current mapping
SentSet == UNION {Range(sent[k]) : k \in DOMAIN sent}

\* process_mapping has returned to the loop of run_once
MappingDone == pc = "loop" /\ mi > 0

\* the bucket loop of the current face is exhausted
FaceDone == pc = "buckets" /\ bi > Len(time_buckets)

\* the least k with k * ChunkSize >= n
CeilDiv(n) == CHOOSE k \in 0..n : k * ChunkSize >= n /\ (k = 0 \/ (k - 1) * ChunkSize < n)

\* ------------------------------------------------------------------ claims

C2_NoWriteInRun ==
    fetchFailed => \A k \in DOMAIN log : log[k][2] # 2

\* C2 amended: once a fetch of the run has failed, no PUT has been made for
\* the mapping being processed and none is made later in that run.
C2_NoWriteAfterFailure ==
    fetchFailed => sent = <<>>

\* the second mapping's fetch failed after the first mapping was written
C2_Witness ==
    /\ fetchFailed
    /\ log = << <<1, 1>>, <<1, 2>>, <<2, 1>> >>
    /\ sent = <<>>

C4_ChunksPartitionTheSet ==
    MappingDone =>
        LET n == Cardinality(unique_asset_ids)
        IN  /\ Len(sent) = CeilDiv(n)
            /\ Len(asset_ids_list) = n
            /\ Range(asset_ids_list) = unique_asset_ids
            /\ \A k \in DOMAIN sent :
                  /\ Len(sent[k]) \in 1..ChunkSize
                  /\ k < Len(sent) => Len(sent[k]) = ChunkSize
                  /\ \A j \in DOMAIN sent[k] :
                        sent[k][j] = asset_ids_list[(k - 1) * ChunkSize + j]
            /\ (Len(sent) - 1) * ChunkSize + (IF sent = <<>> THEN ChunkSize
                                              ELSE Len(sent[Len(sent)])) = n

\* 1001 ids were PUT as chunks of 500, 500 and 1
C4_Witness ==
    /\ MappingDone
    /\ Len(sent) = 3
    /\ Len(sent[1]) = ChunkSize
    /\ Len(sent[3]) = 1

\* C5 as stated: when a mapping lacks a required field, the run has made no
\* remote call by the time the error is raised.
C5_FailsBeforeAnyCall ==
    error = "KeyError" => log = <<>>

\* C6 as stated: once a fetch has failed the process has exited with a
\* non-zero status.
C6_ExitsNonZero ==
    fetchFailed => exitStatus = 1

\* C6 amended: a fetch failure ends the execution of run_once it occurs in
\* (no step after it makes a remote call, which would raise mcalls, until
\* run_once is entered again); in the run-once and interval modes the process
\* exits with status 1 and takes no further step.
C6_FetchFailureEndsRun ==
    /\ [](fetchFailed => pc \in {"exited", "idle"})
    /\ [](fetchFailed /\ mode # "cron" => exitStatus = 1 /\ pc = "exited")
    /\ [][fetchFailed => mode = "cron" /\ mcalls' <= mcalls]_vars

\* a page fetch of the first execution failed in interval mode
C6_Witness ==
    /\ fetchFailed
    /\ mode = "interval"
    /\ run = "first"
    /\ pageReqs # <<>>
    /\ exitStatus = 1

\* C7: a mapping whose final set is empty (no include face, include faces
\* without assets, or every asset removed by the skip faces) gets no PUT.
C7_EmptySetNoWrite ==
    sent # <<>> => FinalTarget(mapping) # {}

\* a mapping whose include faces have assets, all removed by its skip face,
\* was completed
C7_Witness ==
    /\ MappingDone
    /\ UnionOf(mapping.faceIds) # {}
    /\ FinalTarget(mapping) = {}
    /\ unique_asset_ids = {}

\* C8: at most one execution of run_once is in progress at any time.
C8_RunsNeverOverlap ==
    active <= 1

\* a second execution is in progress in interval mode
C8_Witness ==
    /\ mode = "interval"
    /\ run = "later"
    /\ active = 1
    /\ pc = "put"

\* C9: the remote calls of a run go mapping by mapping in the configured
\* order, and within a mapping every fetch precedes every write.
C9_CallsInOrder ==
    \A i, j \in DOMAIN log :
        i < j => \/ log[i][1] < log[j][1]
                 \/ log[i][1] = log[j][1] /\ log[i][2] < log[j][2]

\* two mappings were fetched and written one after the other
C9_Witness ==
    log = << <<1, 1>>, <<1, 2>>, <<2, 1>>, <<2, 2>> >>

\* C10: when the bucket loop of a face is over, the bucket list was requested
\* once, one page was requested per returned token, and the ids received are
\* the union of the pages' id arrays; a face without buckets gives no page
\* request and the empty set.
C10_FaceSetIsUnionOfPages ==
    FaceDone =>
        LET face == CurFaces[fi]
        IN  /\ listReqs = 1
            /\ pageReqs = ServerBuckets(face)
            /\ face_assets = FaceAssets(face)
            /\ ServerBuckets(face) = <<>> => pageReqs = <<>> /\ face_assets = {}

\* the two pages of p1 share an id: 1002 array entries gave 1001 ids
C10_Witness ==
    /\ FaceDone
    /\ CurFaces[fi] = "p1"
    /\ Len(pageReqs) = 2
    /\ Cardinality(face_assets) = MaxAssetId

====
